---- MODULE Spec2Model ----
(***************************************************************************)
(* Model of the uplink-website client: DataService (two-tier cache,       *)
(* request coalescing, retry with backoff) and the application start-up   *)
(* with its maintenance gate.                                              *)
(***************************************************************************)
EXTENDS Integers, Sequences, FiniteSets, TLC

\* ------------------------------------------------------------------ bounds
MaxTime    == 2      \* clock values 0..MaxTime
MaxVersion == 2      \* cache schema versions 1..MaxVersion
MaxTTL     == 2      \* cacheDuration values 1..MaxTTL
MaxRetries == 3      \* retries option 1..MaxRetries
NumCallers == 2      \* concurrent callers of DataService.fetch
MaxReq     == 3      \* request records that can exist at once
MaxLoads   == 2      \* runs of the load sequence per page load

Keys      == {"config", "dialogs", "stats"}
FetchKeys == {"dialogs"}      \* the key the free callers of fetch use
Callers   == 1..NumCallers
ReqIds    == 1..MaxReq
Statuses  == {200, 404}

\* ------------------------------------------------------------------ state
VARIABLES
  now,           \* Date.now()
  cacheVersion,  \* DataService.cacheVersion of the loaded script
  cache,         \* DataService.cache: key -> entry
  store,         \* localStorage item uplink_cache_<key>
  loading,       \* DataService.loading: key -> request id, 0 when absent
  reqs,          \* the fetchPromise chains, by request id
  caller,        \* the request whose promise a caller awaits, 0 when none
  invalidated,   \* history: invalidate(key) ran and no fetch(key) followed yet
  last,          \* history: the operation that ran last and what it returned
  env,           \* the config document served, the URL and the context
  session,       \* sessionStorage
  page,          \* the loaded page: main.js and the services
  norm,          \* a run of EpisodeService.normalizeEpisodes: input and result
  bus            \* an EventBus instance: the handlers of one event

\* what the steps of DataService leave alone
appVars == <<env, session, page, norm, bus>>

dsVars == <<now, cacheVersion, cache, store, loading, reqs, caller,
            invalidated, last>>

NoEntry  == [kind |-> "none"]
NoNorm   == [kind |-> "none"]
NoBus    == [kind |-> "none"]
FreeReq  == [kind |-> "free"]
NoDoc    == [kind |-> "doc"]

\* the transformed body of a response: the document served at time t, in the
\* shape the script of schema version v gives it
Payload(t, v, doc) == [at |-> t, shape |-> v, doc |-> doc]
NoData == Payload(0, 0, NoDoc)

\* the DataService instance and the persistent store, as one value
DSState == [cache |-> cache, store |-> store, loading |-> loading, reqs |-> reqs]

SetDS(dNew) ==
  \E d \in {dNew} :
     /\ cache' = d.cache /\ store' = d.store
     /\ loading' = d.loading /\ reqs' = d.reqs

\* ------------------------------------------------------- DataService.fetch
\* line 34 / 42: Date.now() - timestamp < cacheDuration
FreshMut(ts, T) == now - ts <= T
Fresh(ts, T) == now - ts < T

\* line 182: parsed.version !== this.cacheVersion
VersionMismatchMut(v) == FALSE
VersionMismatch(v) == v # cacheVersion

\* getFromLocalStorage: the value returned and the item it leaves behind
GetFromLocalStorage(st, k) ==
  IF st[k].kind = "none" THEN [ret |-> NoEntry, item |-> st[k]]
  ELSE IF st[k].kind = "corrupt" THEN [ret |-> NoEntry, item |-> st[k]]
  ELSE IF VersionMismatch(st[k].version)
       THEN [ret |-> NoEntry, item |-> NoEntry]
  ELSE [ret  |-> [kind |-> "entry", data |-> st[k].data,
                  timestamp |-> st[k].timestamp],
        item |-> st[k]]

\* line 43: this.cache.set(cacheKey, localCached)
PromoteMut(e) == [e EXCEPT !.timestamp = now]
Promote(e) == e

\* line 49: this.loading.has(cacheKey)
IsLoadingMut(ld, k) == FALSE
IsLoading(ld, k) == ld[k] # 0

\* history: what another operation does to the tiers of key k is folded into
\* the tiers remembered for the requests in flight on k
Sync(q, k, c, s) ==
  IF q.kind = "active" /\ q.key = k
  THEN [q EXCEPT !.pre = [cache |-> c, store |-> s]]
  ELSE q

FreeIds(rq) == {r \in ReqIds : rq[r].kind = "free"}
NewId(rq)   == CHOOSE r \in FreeIds(rq) : \A q \in FreeIds(rq) : r <= q

\* fetch(url, options) up to the promise it returns: the state it leaves,
\* how it was served, the payload of a cache hit, the request awaited
DoFetch(d, k, useCache, T, hasValidator, retries) ==
  LET memHit    == useCache /\ d.cache[k].kind = "entry"
                            /\ Fresh(d.cache[k].timestamp, T)
      readLocal == useCache /\ ~memHit
      lr        == GetFromLocalStorage(d.store, k)
      locHit    == readLocal /\ lr.ret.kind = "entry"
                             /\ Fresh(lr.ret.timestamp, T)
      item      == IF readLocal THEN lr.item ELSE d.store[k]
      id        == NewId(d.reqs)
      out       == [d |-> d, how |-> "memory", data |-> NoData, req |-> 0,
                    stale |-> readLocal /\ d.store[k].kind = "json"
                                        /\ d.store[k].version # cacheVersion,
                    localTs |-> IF d.store[k].kind = "json"
                                THEN d.store[k].timestamp ELSE 0]
  IN
  IF memHit THEN [out EXCEPT !.data = d.cache[k].data]
  ELSE IF locHit THEN
    [out EXCEPT !.how = "local", !.data = lr.ret.data,
       !.d = [d EXCEPT !.cache[k] = Promote(lr.ret), !.store[k] = item,
                !.reqs = [r \in ReqIds |->
                            Sync(d.reqs[r], k, Promote(lr.ret), item)]]]
  ELSE IF IsLoading(d.loading, k) THEN
    [out EXCEPT !.how = "join", !.req = d.loading[k],
       !.d = [d EXCEPT !.store[k] = item,
                !.reqs = [r \in ReqIds |-> Sync(d.reqs[r], k, d.cache[k], item)]]]
  ELSE IF FreeIds(d.reqs) = {} THEN [out EXCEPT !.how = "blocked"]
  ELSE
    [out EXCEPT !.how = "start", !.req = id,
       !.d = [d EXCEPT !.store[k] = item, !.loading[k] = id,
                !.reqs[id] =
                   [kind |-> "active", key |-> k, i |-> 0, phase |-> "attempt",
                    retries |-> retries, useCache |-> useCache,
                    hasValidator |-> hasValidator,
                    attempts |-> 1, fails |-> 0, delays |-> <<>>,
                    pre |-> [cache |-> d.cache[k], store |-> d.store[k]]]]]

\* ------------------------------------------------ settlement of a request
Joined(r) == {c \in Callers : caller[c] = r}

\* every caller that awaits the promise of request r receives its result
\* (last.res, last.joined) and is done
Deliver(r) == [c \in Callers |-> IF c \in Joined(r) THEN 0 ELSE caller[c]]

SettleEv(d, r, outcome, status, valid, res, q) ==
  [op |-> "settle", key |-> q.key, outcome |-> outcome, status |-> status,
   hasValidator |-> q.hasValidator, valid |-> valid, useCache |-> q.useCache,
   res |-> res, joined |-> Joined(r), retries |-> q.retries,
   attempts |-> q.attempts, fails |-> q.fails, delays |-> q.delays,
   cacheBefore |-> d.cache[q.key], storeBefore |-> d.store[q.key],
   pre |-> q.pre]

\* lines 85-88: .catch(error => { this.loading.delete(cacheKey); throw error })
RejectMut(d, r, outcome, status, valid, q) ==
  [d  |-> [d EXCEPT !.reqs[r] = FreeReq],
   settled |-> TRUE,
   ev |-> SettleEv(d, r, outcome, status, valid,
                   [kind |-> "error", err |-> outcome, status |-> status], q)]
Reject(d, r, outcome, status, valid, q) ==
  [d  |-> [d EXCEPT !.loading[q.key] = 0, !.reqs[r] = FreeReq],
   settled |-> TRUE,
   ev |-> SettleEv(d, r, outcome, status, valid,
                   [kind |-> "error", err |-> outcome, status |-> status], q)]

\* ------------------------------------------------ DataService.fetchWithRetry
\* line 105: if (i === retries - 1) throw error
IsLastAttemptMut(i, retries) == i = retries
IsLastAttempt(i, retries) == i = retries - 1

\* line 106: Math.pow(2, i) * 1000
BackoffMut(i) == (i + 1) * 1000
Backoff(i) == (2 ^ i) * 1000

CanAttempt(d, r) == d.reqs[r].kind = "active" /\ d.reqs[r].phase = "attempt"
InBackoff(d, r)  == d.reqs[r].kind = "active" /\ d.reqs[r].phase = "backoff"

\* the await fetch(url) of attempt i rejects
DoTransportFail(d, r) ==
  LET q == [d.reqs[r] EXCEPT !.fails = @ + 1] IN
  IF IsLastAttempt(q.i, q.retries)
  THEN Reject(d, r, "transport", 0, TRUE, q)
  ELSE [d |-> [d EXCEPT !.reqs[r] =
                  [q EXCEPT !.phase = "backoff",
                            !.delays = Append(@, Backoff(q.i))]],
        settled |-> FALSE, ev |-> [op |-> "fail", key |-> q.key]]

\* the backoff timer fires: i++ and the loop condition i < retries
DoBackoffDone(d, r) ==
  LET q == [d.reqs[r] EXCEPT !.i = @ + 1] IN
  IF q.i < q.retries
  THEN [d |-> [d EXCEPT !.reqs[r] =
                  [q EXCEPT !.phase = "attempt", !.attempts = @ + 1]],
        settled |-> FALSE, ev |-> [op |-> "retry", key |-> q.key]]
  ELSE \* the loop ends, fetchWithRetry resolves with undefined and
       \* response.ok throws a TypeError
       Reject(d, r, "type", 0, TRUE, q)

\* line 56: !response.ok
ResponseOkMut(status) == TRUE
ResponseOk(status) == status \in 200..299

\* line 63: validator && !validator(data)
ValidatorRejectsMut(hasValidator, valid) == FALSE
ValidatorRejects(hasValidator, valid) == hasValidator /\ ~valid

\* saveToLocalStorage: setItem may throw (quota), which is swallowed
SaveToLocalStorage(item, entry, saveOk) ==
  IF saveOk
  THEN [kind |-> "json", version |-> cacheVersion,
        data |-> entry.data, timestamp |-> entry.timestamp]
  ELSE item

\* lines 166-168: catch (e) { console.warn(...) } around setItem
SaveErrorMut(saveOk) == IF saveOk THEN "none" ELSE "raised"
SaveError(saveOk) == IF saveOk THEN "none" ELSE "warned"

\* the await fetch(url) of attempt i resolves with a response: lines 55-84
DoRespond(d, r, status, valid, transformOk, saveOk, doc) ==
  LET q == d.reqs[r] IN
  IF ~ResponseOk(status) THEN Reject(d, r, "http", status, valid, q)
  ELSE IF ValidatorRejects(q.hasValidator, valid)
  THEN Reject(d, r, "validation", status, valid, q)
  \* line 68: transform(data) raises, the .catch of the chain takes over
  ELSE IF ~transformOk THEN Reject(d, r, "transform", status, valid, q)
  ELSE LET finalData == Payload(now, cacheVersion, doc)
           entry == [kind |-> "entry", data |-> finalData, timestamp |-> now]
           d1 == IF q.useCache
                 THEN [d EXCEPT !.cache[q.key] = entry,
                                !.store[q.key] =
                                   SaveToLocalStorage(@, entry, saveOk)]
                 ELSE d
       IN IF q.useCache /\ SaveError(saveOk) = "raised"
          THEN Reject(d1, r, "storage", status, valid, q)
          ELSE
          [d |-> [d1 EXCEPT !.loading[q.key] = 0, !.reqs[r] = FreeReq],
           settled |-> TRUE,
           ev |-> SettleEv(d, r, "ok", status, valid,
                           [kind |-> "ok", data |-> finalData], q)]

\* ---------------------------------------------------- DataService.invalidate
DoInvalidate(d, k) ==
  [d EXCEPT !.cache[k] = NoEntry, !.store[k] = NoEntry,
            !.reqs = [r \in ReqIds |-> Sync(d.reqs[r], k, NoEntry, NoEntry)]]

DoInvalidateAll(d) ==
  [d EXCEPT !.cache = [k \in Keys |-> NoEntry],
            !.store = [k \in Keys |-> NoEntry],
            !.reqs = [r \in ReqIds |->
                        IF d.reqs[r].kind = "active"
                        THEN Sync(d.reqs[r], d.reqs[r].key, NoEntry, NoEntry)
                        ELSE d.reqs[r]]]

\* ============================================================ application
TimeUnit       == 300000    \* milliseconds per clock value
EpisodesTTL    == 300000    \* cacheDuration of getAllEpisodes, milliseconds
StatsTTL       == 300000    \* cacheDuration of getStats
ConfigTTL      == 3600000   \* cacheDuration of getConfig
DefaultRetries == 3         \* retries = 3 of fetch

EnabledRaws == {"bool:true", "bool:false", "str:1"}  \* maintenance.enabled
HashRaws    == {"", "H1 "}                 \* maintenance.passphrase_sha256
Entries     == {"", "pw1", " pw1", "pw2"}  \* what the user types
Params      == {"", "off"}                 \* ?maintenance=
Hashes      == {"", "episoden"}  \* location.hash without '#'

ConfigDocs == [kind : {"config"}, enabledRaw : EnabledRaws, hashRaw : HashRaws]

VALID_PAGES == {"live", "protokoll", "dossiers", "info"}

NoEnv     == [doc |-> NoDoc, maintenance |-> "", secure |-> TRUE, ep |-> ""]
\* sessionStorage: the force-off item and the values stored under the unlock
\* keys; history: the expected hashes unlock() ran for, and whether a startup
\* of this session found maintenance=off in the URL
NoSession == [forceOff |-> FALSE, unlocked |-> {}, hashes |-> {},
              sawOff |-> FALSE]

\* history: what enforceMaintenanceGate found and decided at this startup
NoStartup == [decided |-> FALSE, prompted |-> FALSE, known |-> {}]

NoOverlay == [shown |-> FALSE, requirePassword |-> FALSE, expectedHash |-> "",
              errorText |-> "", submitDisabled |-> FALSE, hashing |-> FALSE,
              entered |-> "", raw |-> "", trap |-> FALSE, closing |-> FALSE]

\* AppState, lines 1192-1199, with the page elements the handlers touch
FreshPage(hash) ==
  [up |-> TRUE,
   memo |-> [k \in Keys |-> NoEntry],     \* the services' episodes/stats/config
   gate |-> "CLOSED",
   overlay |-> NoOverlay,
   tasks |-> <<>>,                        \* awaits of loadAll, load, refresh
   AppState |-> [config |-> NoDoc, episodes |-> NoData, stats |-> NoData,
                 currentOrder |-> "newest", currentPage |-> "live"],
   hash |-> hash,
   pending |-> 0,                         \* hashchange events not yet dispatched
   rendered |-> FALSE, errorShown |-> FALSE, refreshing |-> FALSE,
   refreshFailed |-> FALSE, ready |-> FALSE, appError |-> FALSE,
   started |-> {},                        \* history: documents fetch was called for
   startup |-> NoStartup,
   loads |-> 0]                           \* history: calls of loadAppDataAndRender

BlankPage == [FreshPage("") EXCEPT !.up = FALSE]

\* nav: the 'navigate' events emitted so far by the running handler;
\* scroll: the episodes it has scheduled a scroll to
World == [d |-> DSState, session |-> session, p |-> page, e |-> env,
          nav |-> <<>>, scroll |-> <<>>]

dsState == <<cache, store, loading, reqs>>
\* what the steps of the application leave alone
dsRest  == <<now, cacheVersion, caller, invalidated, norm, bus>>

SetW(wNew) ==
  \E w \in {wNew} : SetDS(w.d) /\ session' = w.session /\ page' = w.p

\* String.prototype.trim
Trim(str) == CASE str = " pw1" -> "pw1"
               [] str = "H1 "  -> "H1"
               [] OTHER        -> str

\* String.prototype.toLowerCase
ToLowerCase(str) == CASE str = "H1"  -> "h1"
                      [] str = "H1 " -> "h1 "
                      [] OTHER       -> str

\* hashSHA256, lines 2428-2432: the lower-case hex digest, one per input
Digest(str) == CASE str = "pw1"  -> "h1"
                 [] str = "pw2"  -> "h2"
                 [] str = " pw1" -> "h3"
                 [] str = ""     -> "h0"
                 [] OTHER        -> "h9"

\* the cacheDuration of a document, in clock values
TTL(k) == CASE k = "config" -> ConfigTTL \div TimeUnit
            [] k = "stats"  -> StatsTTL \div TimeUnit
            [] OTHER        -> EpisodesTTL \div TimeUnit

\* getAllEpisodes / getStats / getConfig up to their await
GetService(w, k) ==
  IF w.p.memo[k].kind = "val"
  THEN [w |-> w, req |-> 0, data |-> w.p.memo[k].data]
  ELSE LET f  == DoFetch(w.d, k, TRUE, TTL(k), k = "dialogs", DefaultRetries)
           w0 == [w EXCEPT !.d = f.d, !.p.started = @ \cup {k}]
       IN IF f.how \in {"memory", "local"}
          THEN [w |-> [w0 EXCEPT !.p.memo[k] = [kind |-> "val", data |-> f.data]],
                req |-> 0, data |-> f.data]
          ELSE [w |-> w0, req |-> f.req, data |-> NoData]

\* EpisodeService.reload and StatsService.reload
ReloadServices(w) ==
  [w EXCEPT !.p.memo = [k \in Keys |-> NoEntry],
            !.d = DoInvalidate(DoInvalidate(DoInvalidate(@, "dialogs"),
                                            "stats"), "config")]

\* ------------------------------------------------------------- navigation
PageToHash(pg) == IF pg = "protokoll" THEN "episoden" ELSE pg

HashToPageMut(hash) == IF hash = "" THEN "live" ELSE hash
HashToPage(hash) == IF hash = "episoden" THEN "protokoll"
                    ELSE IF hash = "" THEN "live" ELSE hash

\* line 2331: const targetPage = VALID_PAGES.has(page) ? page : 'live'
TargetPageMut(pg) == pg
TargetPage(pg) == IF pg \in VALID_PAGES THEN pg ELSE "live"

\* window.location.hash = value: a hashchange event is queued when the
\* fragment changes
SetHash(w, value) ==
  IF value = w.p.hash THEN w
  ELSE [w EXCEPT !.p.hash = value, !.p.pending = @ + 1]

Navigate(w, pg, updateHash) ==
  LET targetPage == TargetPage(pg)
      w1 == IF updateHash THEN SetHash(w, PageToHash(targetPage)) ELSE w
  IN [w1 EXCEPT !.p.AppState.currentPage = targetPage,
                !.nav = Append(@, targetPage)]

\* the render functions write into the containers of the page, which are
\* gone once handleLoadError has replaced the body
Render(w) == IF w.p.errorShown THEN w ELSE [w EXCEPT !.p.rendered = TRUE]

RenderFullTimeline(w) ==
  IF w.p.AppState.episodes = NoData THEN w ELSE Render(w)

SetOrder(w, order) ==
  LET w1 == [w EXCEPT !.p.AppState.currentOrder = order] IN
  IF order = "phase" THEN w1 ELSE RenderFullTimeline(w1)

\* URLSearchParams(location.search).get('ep'), "" when the parameter is absent
EpQueries == {"", "3", "0", "x"}
\* /^\d+$/.test(epRaw)
IsDigits(epRaw) == epRaw \in {"3", "0"}
\* Number(epRaw)
ToNumber(epRaw) == IF epRaw = "3" THEN 3 ELSE 0

ScrollToEpisodeFromQuery(w) ==
  IF ~IsDigits(w.e.ep) \/ ToNumber(w.e.ep) < 1 THEN w
  ELSE [SetOrder(w, "chrono") EXCEPT !.scroll = Append(@, ToNumber(w.e.ep))]

HandleRoute(w) ==
  LET h0 == HashToPage(w.p.hash)
      h  == IF h0 \notin VALID_PAGES /\ h0 # "archiv" THEN "live" ELSE h0
      hasEpisodeQuery == IsDigits(w.e.ep)
  IN IF h = "archiv" THEN SetOrder(Navigate(w, "protokoll", TRUE), "phase")
     ELSE IF w.p.AppState.currentPage = h /\ ~(h = "protokoll" /\ hasEpisodeQuery)
          THEN w
     ELSE LET w1 == Navigate(w, h, FALSE) IN
          IF h = "protokoll" THEN ScrollToEpisodeFromQuery(w1) ELSE w1

\* ------------------------------------------------------------ load sequence
\* handleLoadError: the body is replaced by the error card with its retry
\* button, app:error is emitted
HandleLoadErrorMut(w) == w
HandleLoadError(w) ==
  [w EXCEPT !.p.errorShown = TRUE, !.p.overlay = NoOverlay,
            !.p.rendered = FALSE, !.p.appError = TRUE]

\* loadAppDataAndRender after its await: lines 2575-2601
CompleteLoad(w, got) ==
  HandleRoute(Render([w EXCEPT !.p.AppState.episodes = got["dialogs"],
                               !.p.AppState.stats = got["stats"],
                               !.p.ready = TRUE]))

\* refreshLiveData after its await: lines 1956-1965 and the finally block
CompleteRefresh(w, got) ==
  Render([w EXCEPT !.p.AppState.episodes = got["dialogs"],
                   !.p.AppState.stats = got["stats"],
                   !.p.refreshing = FALSE])

\* Promise.all([getAllEpisodes(), getStats()]) and what follows it
AwaitData(w, kind) ==
  LET e    == GetService(w, "dialogs")
      s    == GetService(e.w, "stats")
      need == {e.req, s.req} \ {0}
      got  == [k \in Keys |-> IF k = "dialogs" THEN e.data
                              ELSE IF k = "stats" THEN s.data ELSE NoData]
  IN IF need = {}
     THEN IF kind = "load" THEN CompleteLoad(s.w, got)
                           ELSE CompleteRefresh(s.w, got)
     ELSE [s.w EXCEPT !.p.tasks =
              Append(@, [kind |-> kind, need |-> need, got |-> got])]

\* loadAppDataAndRender up to its await
LoadAppDataAndRender(w) == AwaitData([w EXCEPT !.p.loads = @ + 1], "load")

\* ------------------------------------------------------- maintenance gate
\* line 2451
IsEnabledMut(enabledRaw) == TRUE
IsEnabled(enabledRaw) ==
  enabledRaw \in {"bool:true", "str:true", "num:1", "str:1"}

\* line 2454
ExpectedHash(settings) == ToLowerCase(Trim(settings.hashRaw))

\* lines 2455 and 2458: the value stored under the session key
TokenMut(expectedHash) == "open"
Token(expectedHash) == IF expectedHash = "" THEN "open" ELSE expectedHash

\* line 2540: hashed !== expectedHash
HashMatchesMut(hashed, expectedHash) == TRUE
HashMatches(hashed, expectedHash) == hashed = expectedHash

\* line 2446: sessionStorage.getItem('uplink_maintenance_force_off') === '1'
ForcedOffMut(sess) == FALSE
ForcedOff(sess) == sess.forceOff

\* enforceMaintenanceGate up to line 2460: the session it leaves and whether
\* the gate is to be shown
GateCheck(settings, sess, param) ==
  LET s1 == IF param = "off" THEN [sess EXCEPT !.forceOff = TRUE] ELSE sess IN
  [session |-> s1,
   active  |-> /\ ~ForcedOff(s1)
               /\ IsEnabled(settings.enabledRaw)
               /\ Token(ExpectedHash(settings)) \notin s1.unlocked]

\* loadAll after getConfig: lines 2632-2637, with enforceMaintenanceGate
AfterConfig(w, config) ==
  LET g  == GateCheck(config, w.session, w.e.maintenance)
      w1 == [w EXCEPT !.p.AppState.config = config,
                      !.session = [g.session EXCEPT !.sawOff =
                                      @ \/ w.e.maintenance = "off"],
                      !.p.startup = [decided |-> TRUE, prompted |-> g.active,
                                     known |-> w.session.hashes]]
  IN IF g.active
     THEN [w1 EXCEPT !.p.gate = "AWAITING_INPUT",
              !.p.overlay = [NoOverlay EXCEPT !.shown = TRUE, !.trap = TRUE,
                                !.expectedHash = ExpectedHash(config),
                                !.requirePassword = ExpectedHash(config) # ""]]
     ELSE LoadAppDataAndRender([w1 EXCEPT !.p.gate = "OPEN"])

\* unlock, lines 2511-2523
Unlock(w) ==
  LoadAppDataAndRender(
    [w EXCEPT !.session.unlocked = @ \cup {Token(w.p.overlay.expectedHash)},
              !.session.hashes = @ \cup {w.p.overlay.expectedHash},
              !.p.overlay.trap = FALSE, !.p.overlay.closing = TRUE,
              !.p.gate = "OPEN"])

\* the catch blocks of loadAll / unlock and of refreshLiveData
FailTask(w, t) ==
  IF t.kind = "refresh"
  THEN [w EXCEPT !.p.refreshFailed = TRUE, !.p.refreshing = FALSE]
  ELSE HandleLoadError(w)

CompleteTask(w, t) ==
  IF t.kind = "config" THEN AfterConfig(w, t.got["config"].doc)
  ELSE IF t.kind = "load" THEN CompleteLoad(w, t.got)
  ELSE CompleteRefresh(w, t.got)

\* the promise of request r settles: the awaits on it resume in the order in
\* which they were started
RECURSIVE Resume(_, _, _, _)
Resume(w, ts, r, ev) ==
  IF ts = <<>> THEN w
  ELSE LET t  == Head(ts)
           t1 == [t EXCEPT !.need = @ \ {r}, !.got[ev.key] = ev.res.data]
       IN IF r \notin t.need
          THEN Resume([w EXCEPT !.p.tasks = Append(@, t)], Tail(ts), r, ev)
          ELSE IF ev.outcome # "ok"
          THEN Resume(FailTask(w, t), Tail(ts), r, ev)
          ELSE IF t1.need = {}
          THEN Resume(CompleteTask(w, t1), Tail(ts), r, ev)
          ELSE Resume([w EXCEPT !.p.tasks = Append(@, t1)], Tail(ts), r, ev)

\* a step of a request and, when it settles, the service call that awaits it
\* (this.episodes = await DataService.fetch(...)) and the awaits above it
AppSettle(r, step) ==
  /\ \E s \in {step} :
       /\ IF ~s.settled THEN SetW([World EXCEPT !.d = s.d])
          ELSE LET w0 == [World EXCEPT !.d = s.d]
                   w1 == IF s.ev.outcome = "ok"
                         THEN [w0 EXCEPT !.p.memo[s.ev.key] =
                                  [kind |-> "val", data |-> s.ev.res.data]]
                         ELSE w0
               IN SetW(Resume([w1 EXCEPT !.p.tasks = <<>>], w1.p.tasks, r, s.ev))
       /\ last' = IF s.settled
                  THEN [op |-> "settle", key |-> s.ev.key,
                        outcome |-> s.ev.outcome,
                        failed |-> IF s.ev.outcome = "ok" THEN {}
                                   ELSE {page.tasks[i].kind :
                                           i \in {j \in DOMAIN page.tasks :
                                                    r \in page.tasks[j].need}},
                        readyBefore |-> page.ready,
                        sessionBefore |-> session]
                  ELSE s.ev
  /\ UNCHANGED <<dsRest, env>>

\* every attempt of request r fails in transport: fetchWithRetry runs through
\* its attempts and backoffs (the steps TransportFail and BackoffDone) and
\* throws
RECURSIVE ExhaustRetries(_, _)
ExhaustRetries(d, r) ==
  LET s == IF CanAttempt(d, r) THEN DoTransportFail(d, r)
                               ELSE DoBackoffDone(d, r)
  IN IF s.settled THEN s ELSE ExhaustRetries(s.d, r)

AppTransportFail(r) ==
  /\ CanAttempt(DSState, r)
  /\ AppSettle(r, ExhaustRetries(DSState, r))

AppRespond(r, status, valid) ==
  /\ CanAttempt(DSState, r)
  /\ AppSettle(r, DoRespond(DSState, r, status, valid, TRUE, TRUE,
                            IF reqs[r].key = "config" THEN env.doc ELSE NoDoc))

\* the page is loaded (or loaded again): the module instances are new,
\* localStorage, sessionStorage and the URL fragment stay; init() and loadAll
\* up to its await
PageLoad(param) ==
  /\ env' = [env EXCEPT !.maintenance = param]
  /\ LET w0 == [d |-> [cache |-> [k \in Keys |-> NoEntry], store |-> store,
                       loading |-> [k \in Keys |-> 0],
                       reqs |-> [r \in ReqIds |-> FreeReq]],
                session |-> session, e |-> env', nav |-> <<>>,
                scroll |-> <<>>,
                p |-> FreshPage(page.hash)]
         c  == GetService(w0, "config")
     IN IF c.req = 0
        THEN SetW(AfterConfig(c.w, c.data.doc))
        ELSE SetW([c.w EXCEPT !.p.tasks =
                      <<[kind |-> "config", need |-> {c.req},
                         got |-> [k \in Keys |-> NoData]]>>])
  /\ last' = [op |-> "pageLoad"]
  /\ UNCHANGED dsRest

\* history: an attempt to unlock with the passphrase form and its verdict
AttemptEv(o, verdict) ==
  [op |-> "attempt", raw |-> o.raw, entered |-> o.entered,
   expectedHash |-> o.expectedHash, secure |-> env.secure,
   sessionBefore |-> session, loadsBefore |-> page.loads,
   gateBefore |-> page.gate, verdict |-> verdict]

\* lines 2550-2552: the message of the catch block of the submit handler
ErrorMessageMut(message) == "Unerwarteter Fehler. Bitte erneut versuchen."
ErrorMessage(message) ==
  IF message = "HTTPS_REQUIRED" THEN "Nur ueber HTTPS verfuegbar."
  ELSE "Unerwarteter Fehler. Bitte erneut versuchen."

\* submit of the passphrase form, lines 2526-2556, up to the await of the digest
Submit(e) ==
  /\ page.overlay.shown /\ page.overlay.requirePassword
  /\ ~page.overlay.submitDisabled
  /\ LET entered == Trim(e)
         o       == [page.overlay EXCEPT !.errorText = "", !.raw = e,
                                         !.entered = entered]
         ev      == AttemptEv(o, "pending")
     IN IF entered = ""
        THEN /\ page' = [page EXCEPT !.overlay =
                            [o EXCEPT !.errorText = "Passwort fehlt.",
                                      !.raw = "", !.entered = ""]]
             /\ last' = [ev EXCEPT !.verdict = "missing"]
        ELSE IF ~env.secure
        THEN /\ page' = [page EXCEPT !.overlay =
                            [o EXCEPT !.errorText = ErrorMessage("HTTPS_REQUIRED"),
                                      !.raw = "", !.entered = ""]]
             /\ last' = [ev EXCEPT !.verdict = "https"]
        ELSE /\ page' = [page EXCEPT !.overlay =
                            [o EXCEPT !.submitDisabled = TRUE, !.hashing = TRUE]]
             /\ last' = ev
  /\ UNCHANGED <<dsState, dsRest, env, session>>

\* ------------------------------------------ DataService under free callers
Fetch(c, k, useCache, T, hasValidator, retries) ==
  /\ caller[c] = 0
  /\ \E f \in {DoFetch(DSState, k, useCache, T, hasValidator, retries)} :
     /\ f.how # "blocked"
     /\ SetDS(f.d)
     /\ caller' = [caller EXCEPT ![c] = f.req]
     /\ last' = [op |-> "fetch", key |-> k, how |-> f.how, T |-> T,
                 useCache |-> useCache,
                 time |-> now, afterInv |-> invalidated[k],
                 stale |-> f.stale, localTs |-> f.localTs, data |-> f.data]
  /\ invalidated' = [invalidated EXCEPT ![k] = FALSE]
  /\ UNCHANGED <<now, cacheVersion, appVars>>

Settle(r, step) ==
  /\ \E s \in {step} :
       /\ SetDS(s.d)
       /\ caller' = IF s.settled THEN Deliver(r) ELSE caller
       /\ last' = s.ev
  /\ UNCHANGED <<now, cacheVersion, invalidated, appVars>>

TransportFail(r) ==
  /\ CanAttempt(DSState, r)
  /\ Settle(r, DoTransportFail(DSState, r))

BackoffDone(r) ==
  /\ InBackoff(DSState, r)
  /\ Settle(r, DoBackoffDone(DSState, r))

Respond(r, status, valid, transformOk, saveOk) ==
  /\ CanAttempt(DSState, r)
  /\ Settle(r, DoRespond(DSState, r, status, valid, transformOk, saveOk, NoDoc))

Invalidate(k) ==
  /\ SetDS(DoInvalidate(DSState, k))
  /\ invalidated' = [invalidated EXCEPT ![k] = TRUE]
  /\ last' = [op |-> "invalidate", key |-> k]
  /\ UNCHANGED <<now, cacheVersion, caller, appVars>>

InvalidateAll ==
  /\ SetDS(DoInvalidateAll(DSState))
  /\ invalidated' = [k \in Keys |-> k \in FetchKeys]
  /\ last' = [op |-> "invalidateAll"]
  /\ UNCHANGED <<now, cacheVersion, caller, appVars>>

\* ------------------------------------------------------------- environment
Tick ==
  /\ now < MaxTime
  /\ now' = now + 1
  /\ UNCHANGED <<cacheVersion, cache, store, loading, reqs, caller,
                 invalidated, last, appVars>>

\* the page is loaded again, possibly with a script of a newer cacheVersion:
\* the constructor runs, localStorage survives
Reload(v) ==
  /\ v \in {cacheVersion, cacheVersion + 1} /\ v <= MaxVersion
  /\ cacheVersion' = v
  /\ cache' = [k \in Keys |-> NoEntry]
  /\ loading' = [k \in Keys |-> 0]
  /\ reqs' = [r \in ReqIds |-> FreeReq]
  /\ caller' = [c \in Callers |-> 0]
  /\ invalidated' = [k \in Keys |-> FALSE]
  /\ last' = [op |-> "reload"]
  /\ UNCHANGED <<now, store, appVars>>

Init ==
  /\ now = 0
  /\ cacheVersion = 1
  /\ cache = [k \in Keys |-> NoEntry]
  /\ store \in {st \in [Keys -> {NoEntry, [kind |-> "corrupt"]}] :
                   \A k \in Keys \ FetchKeys : st[k] = NoEntry}
  /\ loading = [k \in Keys |-> 0]
  /\ reqs = [r \in ReqIds |-> FreeReq]
  /\ caller = [c \in Callers |-> 0]
  /\ invalidated = [k \in Keys |-> FALSE]
  /\ last = [op |-> "init"]
  /\ env = NoEnv /\ session = NoSession /\ page = BlankPage
  /\ norm = NoNorm
  /\ bus = NoBus

Next ==
  \/ \E c \in Callers, k \in FetchKeys, useCache \in BOOLEAN, T \in 1..MaxTTL,
        hasValidator \in BOOLEAN, retries \in 1..MaxRetries :
        Fetch(c, k, useCache, T, hasValidator, retries)
  \/ \E r \in ReqIds : TransportFail(r)
  \/ \E r \in ReqIds : BackoffDone(r)
  \/ \E r \in ReqIds, status \in Statuses, valid \in BOOLEAN,
        transformOk \in BOOLEAN, saveOk \in BOOLEAN :
        Respond(r, status, valid, transformOk, saveOk)
  \/ \E k \in FetchKeys : Invalidate(k)
  \/ InvalidateAll
  \/ Tick
  \/ \E v \in 1..MaxVersion : Reload(v)

vars == <<dsVars, env, session, page, norm, bus>>

Spec == Init /\ [][Next]_vars


\* the digest of the entered passphrase arrives: lines 2540-2547
HashDone ==
  /\ page.overlay.hashing
  /\ LET o      == [page.overlay EXCEPT !.hashing = FALSE]
         hashed == Digest(o.entered)
         ev     == AttemptEv(o, "pending")
     IN IF ~HashMatches(hashed, o.expectedHash)
        THEN /\ SetW([World EXCEPT !.p.overlay =
                         [o EXCEPT !.errorText = "Falsches Passwort.",
                                   !.submitDisabled = FALSE,
                                   !.raw = "", !.entered = ""]])
             /\ last' = [ev EXCEPT !.verdict = "wrong"]
        ELSE /\ SetW(Unlock([World EXCEPT !.p.overlay =
                                [o EXCEPT !.raw = "", !.entered = ""]]))
             /\ last' = [ev EXCEPT !.verdict = "unlocked"]
  /\ UNCHANGED <<dsRest, env>>

\* click on "Weiter" of the gate without a passphrase: lines 2558-2560
ClickContinue ==
  /\ page.overlay.shown /\ ~page.overlay.requirePassword
  /\ page.loads < MaxLoads
  /\ SetW(Unlock(World))
  /\ last' = [op |-> "continue"]
  /\ UNCHANGED <<dsRest, env>>

\* Escape while the focus trap of the overlay is installed: lines 2503-2509
EscapeKey ==
  /\ page.overlay.trap
  /\ page.loads < MaxLoads
  /\ IF ~page.overlay.requirePassword THEN SetW(Unlock(World)) ELSE SetW(World)
  /\ last' = [op |-> "escape"]
  /\ UNCHANGED <<dsRest, env>>

\* line 2515: setTimeout(() => overlay.remove(), 200)
OverlayRemoved ==
  /\ page.overlay.shown /\ page.overlay.closing
  /\ page' = [page EXCEPT !.overlay = NoOverlay]
  /\ last' = [op |-> "overlayRemoved"]
  /\ UNCHANGED <<dsState, dsRest, env, session>>

\* click on the refresh button: refreshLiveData up to its await
RefreshClick ==
  /\ page.up /\ ~page.errorShown /\ ~page.refreshing
  /\ SetW(AwaitData(ReloadServices([World EXCEPT !.p.refreshing = TRUE,
                                                 !.p.refreshFailed = FALSE]),
                    "refresh"))
  /\ last' = [op |-> "refresh", gate |-> page.gate,
               configCache |-> cache["config"], configStore |-> store["config"],
               joined |-> {k \in {"dialogs", "stats"} : IsLoading(loading, k)}]
  /\ UNCHANGED <<dsRest, env>>

\* hashchange: line 2908
HashChange(hash) ==
  /\ page.up /\ hash # page.hash
  /\ SetW(HandleRoute([World EXCEPT !.p.hash = hash]))
  /\ last' = [op |-> "hashchange"]
  /\ UNCHANGED <<dsRest, env>>

AppInit ==
  /\ now = 0
  /\ cacheVersion = 1
  /\ cache = [k \in Keys |-> NoEntry]
  /\ store = [k \in Keys |-> NoEntry]
  /\ loading = [k \in Keys |-> 0]
  /\ reqs = [r \in ReqIds |-> FreeReq]
  /\ caller = [c \in Callers |-> 0]
  /\ invalidated = [k \in Keys |-> FALSE]
  /\ last = [op |-> "init"]
  /\ env \in [doc : ConfigDocs, maintenance : {""}, secure : BOOLEAN, ep : {""}]
  /\ session = NoSession /\ page = BlankPage
  /\ norm = NoNorm
  /\ bus = NoBus

AppNext ==
  \/ \E param \in Params : PageLoad(param)
  \/ \E r \in ReqIds : AppTransportFail(r)
  \/ \E r \in ReqIds, status \in Statuses, valid \in BOOLEAN :
        AppRespond(r, status, valid)
  \/ \E e \in Entries : Submit(e)
  \/ HashDone
  \/ ClickContinue
  \/ EscapeKey
  \/ OverlayRemoved
  \/ RefreshClick
  \/ \E hash \in Hashes : HashChange(hash)

SpecApp == AppInit /\ [][AppNext]_vars

\* ------------------------------------------------------------- navigation
\* navigate and handleRoute on a page whose listeners are installed (init),
\* under arbitrary page ids and fragments
MaxPending == 2      \* hashchange events queued at a time

NavHashes == {"", "live", "episoden", "protokoll", "dossiers", "archiv", "bogus"}
NavPages  == VALID_PAGES \cup {"episoden", "archiv", "bogus"}

\* history: the handler that ran, the fragment and page it found, and the
\* 'navigate' events it emitted
NavEv(op, arg, w0, w) ==
  [op |-> op, arg |-> arg, hash |-> w0.p.hash, pending |-> w0.p.pending,
   currentPage |-> w0.p.AppState.currentPage,
   currentOrder |-> w0.p.AppState.currentOrder, events |-> w.nav,
   scrolls |-> w.scroll]

\* a caller of navigate: tab click, keyboard shortcut, button
CallNavigate(pg, updateHash) ==
  /\ page.up /\ page.pending < MaxPending
  /\ \E w \in {Navigate(World, pg, updateHash)} :
        SetW(w) /\ last' = NavEv("navigate", pg, World, w)
  /\ UNCHANGED <<dsRest, env>>

\* the user follows a link to, or types, another fragment
ChangeFragment(hash) ==
  /\ page.up /\ page.pending < MaxPending /\ hash # page.hash
  /\ \E w \in {SetHash(World, hash)} :
        SetW(w) /\ last' = NavEv("fragment", hash, World, w)
  /\ UNCHANGED <<dsRest, env>>

\* line 2908: the hashchange listener
HashChangeEvent ==
  /\ page.up /\ page.pending > 0
  /\ LET w0 == [World EXCEPT !.p.pending = @ - 1] IN
     \E w \in {HandleRoute(w0)} :
        SetW(w) /\ last' = NavEv("handleRoute", "event", w0, w)
  /\ UNCHANGED <<dsRest, env>>

\* line 2595: handleRoute called directly
CallHandleRoute ==
  /\ page.up /\ page.pending < MaxPending
  /\ \E w \in {HandleRoute(World)} :
        SetW(w) /\ last' = NavEv("handleRoute", "call", World, w)
  /\ UNCHANGED <<dsRest, env>>

NavInit ==
  /\ now = 0
  /\ cacheVersion = 1
  /\ cache = [k \in Keys |-> NoEntry]
  /\ store = [k \in Keys |-> NoEntry]
  /\ loading = [k \in Keys |-> 0]
  /\ reqs = [r \in ReqIds |-> FreeReq]
  /\ caller = [c \in Callers |-> 0]
  /\ invalidated = [k \in Keys |-> FALSE]
  /\ last = [op |-> "init"]
  /\ env \in [doc : {NoDoc}, maintenance : {""}, secure : {TRUE}, ep : EpQueries]
  /\ session = NoSession
  /\ page \in {FreshPage(hash) : hash \in NavHashes}
  /\ norm = NoNorm
  /\ bus = NoBus

NavNext ==
  \/ \E pg \in NavPages, updateHash \in BOOLEAN : CallNavigate(pg, updateHash)
  \/ \E hash \in NavHashes : ChangeFragment(hash)
  \/ HashChangeEvent
  \/ CallHandleRoute

SpecNav == NavInit /\ [][NavNext]_vars

\* ------------------------------------------- the gate over several startups
GateHashRaws == {"", "H1 ", "h2"}
GateDocs == [kind : {"config"}, enabledRaw : {"bool:true", "bool:false"},
             hashRaw : GateHashRaws]

\* the operator publishes another /data/config.json
ConfigChange(doc) ==
  /\ doc # env.doc
  /\ env' = [env EXCEPT !.doc = doc]
  /\ last' = [op |-> "configChange"]
  /\ UNCHANGED <<dsState, dsRest, session, page>>

\* a response arrives; writing it to localStorage may fail
GateRespond(r, status, saveOk) ==
  /\ CanAttempt(DSState, r)
  /\ AppSettle(r, DoRespond(DSState, r, status, TRUE, TRUE, saveOk,
                            IF reqs[r].key = "config" THEN env.doc ELSE NoDoc))

GateInit ==
  /\ now = 0
  /\ cacheVersion = 1
  /\ cache = [k \in Keys |-> NoEntry]
  /\ store = [k \in Keys |-> NoEntry]
  /\ loading = [k \in Keys |-> 0]
  /\ reqs = [r \in ReqIds |-> FreeReq]
  /\ caller = [c \in Callers |-> 0]
  /\ invalidated = [k \in Keys |-> FALSE]
  /\ last = [op |-> "init"]
  /\ env \in [doc : GateDocs, maintenance : {""}, secure : {TRUE}, ep : {""}]
  /\ session = NoSession /\ page = BlankPage
  /\ norm = NoNorm
  /\ bus = NoBus

GateNext ==
  \/ \E param \in Params : PageLoad(param)
  \/ \E doc \in GateDocs : ConfigChange(doc)
  \/ \E r \in ReqIds, status \in Statuses, saveOk \in BOOLEAN :
        GateRespond(r, status, saveOk)
  \/ \E e \in Entries : Submit(e)
  \/ HashDone
  \/ ClickContinue
  \/ EscapeKey
  \/ OverlayRemoved

SpecGate == GateInit /\ [][GateNext]_vars


\* ====================================== EpisodeService.normalizeEpisodes
MaxItems == 2        \* items of a raw episodes array

\* dates as they stand in the documents, and the day number of the valid ones
Dates == {"absent", "2026-03-01", "2026-11-01", "garbage"}
DayOf(date) == IF date = "2026-03-01" THEN 0 ELSE 245
ValidDate(date) == date \in {"2026-03-01", "2026-11-01"}

\* time zones of the browser: offsets from UTC in minutes and the instant
\* (minutes since 2026-03-01T00:00Z) of a change of offset; America/Havana
\* leaves DST on 2026-11-01 at 05:00Z
Zones == {[name |-> "UTC", at |-> 0, before |-> 0, after |-> 0],
          [name |-> "America/Havana", at |-> 245 * 1440 + 300,
           before |-> -240, after |-> -300]}

\* the messages of a raw episode: absent, not an array, or an array of n
\* elements of which those in src carry a timestamp and those in bad are null
MsgLens == {0, 1, 2, 38}
NoMessages(kind) == [kind |-> kind, n |-> 0, src |-> {}, bad |-> {}]
Messages(n, src, bad) == [kind |-> "array", n |-> n, src |-> src, bad |-> bad]
MessageVals ==
  {NoMessages("absent"), NoMessages("other")}
    \cup {Messages(n, {}, {}) : n \in MsgLens}
    \cup {Messages(2, {0}, {}), Messages(2, {1}, {}), Messages(2, {}, {1})}

\* a raw episode that is an object; a field is "absent", "null" or a value
BaseEpisode ==
  [kind |-> "obj", date |-> "2026-03-01", episode |-> "absent",
   messages |-> Messages(2, {}, {}),
   terminal_blocks |-> "absent", analyst_notes |-> "absent",
   score_delta |-> "absent", scoreDelta |-> "absent",
   metrics_update |-> "absent", metricsUpdate |-> "absent",
   state_snapshot |-> "absent", stateSnapshot |-> "absent"]

\* the values of the field episode: absent, 7, 0, -3, the string 'x'
EpisodeVals == {"absent", "int:7", "int:0", "int:-3", "str:x"}

RawEpisodes ==
  {[BaseEpisode EXCEPT !.date = d] : d \in Dates}
    \cup {[BaseEpisode EXCEPT !.date = "2026-11-01", !.messages = m] :
            m \in MessageVals}
    \cup {[BaseEpisode EXCEPT !.terminal_blocks = v, !.analyst_notes = a] :
            v \in {"absent", "null", "val"}, a \in {"absent", "val"}}
    \cup {[BaseEpisode EXCEPT !.score_delta = v, !.scoreDelta = l,
                              !.metrics_update = l, !.metricsUpdate = v] :
            v \in {"absent", "val"}, l \in {"absent", "legacy"}}
    \cup {[BaseEpisode EXCEPT !.state_snapshot = v, !.stateSnapshot = l,
                              !.episode = e] :
            v \in {"absent", "val"}, l \in {"absent", "legacy"},
            e \in {"absent", "int:7"}}
    \cup {[BaseEpisode EXCEPT !.episode = e] : e \in EpisodeVals}

\* an item of the array that is no object: null, or the number 5
NullItem == [kind |-> "null"]
NumItem  == [kind |-> "num"]
RawItems == {NullItem, NumItem} \cup RawEpisodes

RECURSIVE SeqsUpTo(_, _)
SeqsUpTo(S, n) ==
  IF n = 0 THEN {<<>>}
  ELSE SeqsUpTo(S, n - 1)
         \cup {Append(q, x) : q \in {p \in SeqsUpTo(S, n - 1) : Len(p) = n - 1},
                              x \in S}

\* a property read on an item: undefined on a primitive
Field(item, name) == IF item.kind = "obj" THEN item[name] ELSE "absent"

\* JavaScript truthiness of a field value
Truthy(v) == v \notin {"absent", "null"}

\* a || b || fallback
Either(a, b, fallback) == IF Truthy(a) THEN a ELSE IF Truthy(b) THEN b ELSE fallback

NullTs == [kind |-> "null", min |-> 0]
SrcTs  == [kind |-> "src", min |-> 0]
IsoTs(min) == [kind |-> "iso", min |-> min]

\* the offset of local time at a UTC instant
OffsetAt(zone, utc) == IF utc < zone.at THEN zone.before ELSE zone.after

\* UTC(t) of ECMAScript: a local time that exists once takes its own offset,
\* one that is skipped or repeated takes the offset before the change
UtcOfLocal(zone, local) ==
  IF local - zone.after >= zone.at /\ ~(local - zone.before < zone.at)
  THEN local - zone.after
  ELSE local - zone.before

\* lines 59-62: the date at 03:14:00Z (or the wall clock), then
\* setMinutes(getMinutes() + index * 3), which works on local time
SyntheticTimestampMut(zone, date, index) == NullTs
SyntheticTimestamp(zone, date, index) ==
  IF Truthy(date) /\ ~ValidDate(date) THEN NullTs
  ELSE LET base == IF Truthy(date) THEN DayOf(date) * 1440 + 194
                   ELSE (now * TimeUnit) \div 60000
       IN IsoTs(UtcOfLocal(zone, base + OffsetAt(zone, base) + index * 3))

Throw == [kind |-> "throw", records |-> <<>>]
Ok(records) == [kind |-> "ok", records |-> records]

\* line 49: episode.episode || index + 1 (index counts from 0)
Num(n) == [kind |-> "int", n |-> n]

\* line 49: episode.episode || index + 1
EpisodeNumber(v, index) ==
  CASE v = "int:7"  -> Num(7)
    [] v = "int:-3" -> Num(-3)
    [] v = "str:x"  -> [kind |-> "str", n |-> 0]
    [] OTHER        -> Num(index + 1)

\* normalizeEpisode(episode, index): null for a falsy item, "throw" when a
\* message is null (msg.timestamp raises a TypeError), else the record
NormalizeEpisode(zone, episode, index) ==
  IF episode.kind = "null" THEN [kind |-> "null"]
  ELSE LET date == IF Truthy(Field(episode, "date"))
                   THEN episode.date ELSE "null"
           raw  == IF episode.kind = "obj" THEN episode.messages
                   ELSE NoMessages("absent")
           msgs == IF raw.kind = "array" THEN raw ELSE Messages(0, {}, {})
       IN IF msgs.bad # {} THEN [kind |-> "throw"]
          ELSE [kind |-> "rec",
                date |-> date,
                episode |-> EpisodeNumber(Field(episode, "episode"), index),
                messages |->
                  [i \in 1..msgs.n |->
                     IF (i - 1) \in msgs.src THEN SrcTs
                     ELSE SyntheticTimestamp(zone, date, i - 1)],
                terminal_blocks |->
                  Either(Field(episode, "terminal_blocks"), "absent", "empty"),
                score_delta |->
                  Either(Field(episode, "score_delta"),
                         Field(episode, "scoreDelta"), "empty"),
                metrics_update |->
                  Either(Field(episode, "metrics_update"),
                         Field(episode, "metricsUpdate"), "empty"),
                state_snapshot |->
                  Either(Field(episode, "state_snapshot"),
                         Field(episode, "stateSnapshot"), "null"),
                analyst_notes |-> Field(episode, "analyst_notes"),
                item |-> index + 1]    \* history: the position in the input

\* .filter(Boolean)
RECURSIVE FilterBoolean(_)
FilterBoolean(q) ==
  IF q = <<>> THEN <<>>
  ELSE IF Head(q).kind = "null" THEN FilterBoolean(Tail(q))
  ELSE <<Head(q)>> \o FilterBoolean(Tail(q))

\* normalizeEpisodes(rawEpisodes)
NormalizeEpisodes(zone, rawEpisodes) ==
  IF rawEpisodes.kind # "array" THEN Ok(<<>>)
  ELSE LET mapped == [i \in 1..Len(rawEpisodes.items) |->
                        NormalizeEpisode(zone, rawEpisodes.items[i], i - 1)]
       IN IF \E i \in 1..Len(mapped) : mapped[i].kind = "throw" THEN Throw
          ELSE Ok(FilterBoolean(mapped))

RawInputs ==
  {[kind |-> "other", items |-> <<>>]}
    \cup {[kind |-> "array", items |-> q] : q \in SeqsUpTo(RawItems, MaxItems)}

\* the transform of getAllEpisodes runs on a response body
Normalize ==
  /\ norm.kind = "input"
  /\ norm' = [norm EXCEPT !.kind = "done",
                          !.out = NormalizeEpisodes(norm.zone, norm.raw)]
  /\ last' = [op |-> "normalize"]
  /\ UNCHANGED <<now, cacheVersion, cache, store, loading, reqs, caller,
                 invalidated, env, session, page, bus>>

NormInit ==
  /\ now \in 0..MaxTime
  /\ cacheVersion = 1
  /\ cache = [k \in Keys |-> NoEntry]
  /\ store = [k \in Keys |-> NoEntry]
  /\ loading = [k \in Keys |-> 0]
  /\ reqs = [r \in ReqIds |-> FreeReq]
  /\ caller = [c \in Callers |-> 0]
  /\ invalidated = [k \in Keys |-> FALSE]
  /\ last = [op |-> "init"]
  /\ env = NoEnv /\ session = NoSession /\ page = BlankPage
  /\ norm \in [kind : {"input"}, raw : RawInputs, zone : Zones, out : {Throw}]
  /\ bus = NoBus

NormNext == Normalize

SpecNorm == NormInit /\ [][NormNext]_vars

\* ================================================================ EventBus
\* one EventBus instance and the handlers of one event name
MaxHandlers == 3     \* subscriptions made over a run
MaxEmits    == 2     \* emits over a run

HandlerIds == 1..MaxHandlers
\* how a handler was registered and what it does when called: "plain" was
\* given to on, "once" was given to once (the bus holds its wrapper), "unsub"
\* was given to on and calls the unsubscribe function on returned
Registrations == {"plain", "once", "unsub"}
EventData == {"d1", "d2"}

Handler(id, reg, throws) == [id |-> id, reg |-> reg, throws |-> throws]
NoEmit == [kind |-> "none", data |-> "", start |-> <<>>, calls |-> <<>>,
           propagated |-> FALSE]

\* callbacks.indexOf(callback), 0 when absent
IndexOf(list, id) ==
  IF \E k \in DOMAIN list : list[k].id = id
  THEN CHOOSE k \in DOMAIN list :
          list[k].id = id /\ \A j \in 1..(k - 1) : list[j].id # id
  ELSE 0

\* off(event, callback): indexOf, then splice(index, 1)
Splice(list, id) ==
  LET k == IndexOf(list, id) IN
  IF k = 0 THEN list
  ELSE [j \in 1..(Len(list) - 1) |-> IF j < k THEN list[j] ELSE list[j + 1]]

\* what calling a handler does to the array of the event: the wrapper of
\* once calls the callback and then off, so a throwing callback leaves it in
CallHandler(list, h) ==
  CASE h.reg = "once"  -> IF h.throws THEN list ELSE Splice(list, h.id)
    [] h.reg = "unsub" -> Splice(list, h.id)
    [] OTHER           -> list

\* try { callback(data) } catch (error) { console.error(...) }
OutcomeMut(threw) == IF threw THEN "raised" ELSE "returned"
Outcome(threw) == IF threw THEN "logged" ELSE "returned"

\* callbacks.forEach: indices 1..len with len taken at the start, an index
\* the array no longer has is passed over
RECURSIVE ForEach(_, _, _, _, _)
ForEach(list, k, len, data, calls) ==
  IF k > len THEN [list |-> list, calls |-> calls, propagated |-> FALSE]
  ELSE IF k > Len(list) THEN ForEach(list, k + 1, len, data, calls)
  ELSE LET h == list[k]
           out == Outcome(h.throws)
           after == CallHandler(list, h)
           called == Append(calls, [id |-> h.id, data |-> data,
                                    threw |-> h.throws])
       IN IF out = "raised"
          THEN [list |-> after, calls |-> called, propagated |-> TRUE]
          ELSE ForEach(after, k + 1, len, data, called)

\* on(event, callback)
On(reg, throws) ==
  /\ bus.next <= MaxHandlers
  /\ bus' = [bus EXCEPT !.has = TRUE,
                        !.list = Append(@, Handler(bus.next, reg, throws)),
                        !.next = @ + 1]
  /\ UNCHANGED <<dsVars, env, session, page, norm>>

\* once(event, callback)
Once(throws) ==
  /\ bus.next <= MaxHandlers
  /\ bus' = [bus EXCEPT !.has = TRUE,
                        !.list = Append(@, Handler(bus.next, "once", throws)),
                        !.next = @ + 1]
  /\ UNCHANGED <<dsVars, env, session, page, norm>>

\* the unsubscribe function of a handler given to on, called from outside
Off(id) ==
  /\ bus.has
  /\ \E k \in DOMAIN bus.list : bus.list[k].id = id /\ bus.list[k].reg # "once"
  /\ bus' = [bus EXCEPT !.list = Splice(@, id)]
  /\ UNCHANGED <<dsVars, env, session, page, norm>>

\* emit(event, data)
Emit(data) ==
  /\ bus.emits < MaxEmits
  /\ LET r == IF bus.has THEN ForEach(bus.list, 1, Len(bus.list), data, <<>>)
              ELSE [list |-> bus.list, calls |-> <<>>, propagated |-> FALSE]
     IN bus' = [bus EXCEPT
          !.list = r.list,
          !.emits = @ + 1,
          !.invoked = [i \in HandlerIds |->
                         @[i] + Cardinality({c \in DOMAIN r.calls :
                                                r.calls[c].id = i})],
          !.lastEmit = [kind |-> "emit", data |-> data, start |-> bus.list,
                        calls |-> r.calls, propagated |-> r.propagated]]
  /\ UNCHANGED <<dsVars, env, session, page, norm>>

\* clear(event)
Clear ==
  /\ bus.has
  /\ bus' = [bus EXCEPT !.has = FALSE, !.list = <<>>]
  /\ UNCHANGED <<dsVars, env, session, page, norm>>

BusInit ==
  /\ now = 0
  /\ cacheVersion = 1
  /\ cache = [k \in Keys |-> NoEntry]
  /\ store = [k \in Keys |-> NoEntry]
  /\ loading = [k \in Keys |-> 0]
  /\ reqs = [r \in ReqIds |-> FreeReq]
  /\ caller = [c \in Callers |-> 0]
  /\ invalidated = [k \in Keys |-> FALSE]
  /\ last = [op |-> "init"]
  /\ env = NoEnv /\ session = NoSession /\ page = BlankPage
  /\ norm = NoNorm
  /\ bus = [kind |-> "bus", has |-> FALSE, list |-> <<>>, next |-> 1,
            invoked |-> [i \in HandlerIds |-> 0], emits |-> 0,
            lastEmit |-> NoEmit]

BusNext ==
  \/ \E reg \in {"plain", "unsub"}, throws \in BOOLEAN : On(reg, throws)
  \/ \E throws \in BOOLEAN : Once(throws)
  \/ \E id \in HandlerIds : Off(id)
  \/ \E data \in EventData : Emit(data)
  \/ Clear

SpecBus == BusInit /\ [][BusNext]_vars

\* =================================================================== claims
ActiveOn(k) == {r \in ReqIds : reqs[r].kind = "active" /\ reqs[r].key = k}

\* C1: calls of fetch(key) issued while a request for the key is outstanding
\* start no second request: a key never has more than one request in flight,
\* every waiting caller awaits the request the loading map holds for its key,
\* and at settlement each of them is handed the one result of that request.
C1_SingleFlight ==
  /\ \A k \in Keys : Cardinality(ActiveOn(k)) <= 1
  /\ \A k \in Keys : loading[k] # 0 <=> ActiveOn(k) = {loading[k]}
  /\ \A c \in Callers : caller[c] # 0 => reqs[caller[c]].kind = "active"
  /\ last.op = "settle" => \A c \in last.joined : caller[c] = 0

C1_Witness ==
  /\ last.op = "settle" /\ last.outcome = "ok"
  /\ Cardinality(last.joined) >= 2

\* C2: the first fetch(key) after invalidate(key) starts a new network request.
C2_FetchAfterInvalidate ==
  (last.op = "fetch" /\ last.afterInv) => last.how = "start"

\* C3: a payload returned from the memory tier or promoted from the persistent
\* tier was fetched less than cacheDuration ago and has the current schema
\* version.
C3_HitIsValid ==
  (last.op = "fetch" /\ last.how \in {"memory", "local"}) =>
     /\ last.time - last.data.at < last.T
     /\ last.data.shape = cacheVersion

C3_Witness ==
  /\ last.op = "fetch" /\ last.how = "memory"
  /\ last.time - last.data.at = 1 /\ last.T = 2
  /\ cache[last.key].timestamp = last.data.at

\* C4: a persistent record written under another schema version is never
\* returned, even within its TTL, and the read that finds it removes it; every
\* payload handed out has the current schema version.
C4_BumpInvalidates ==
  /\ (last.op = "fetch" /\ last.stale) =>
        /\ last.how \in {"join", "start"}
        /\ store[last.key] = NoEntry
  /\ (last.op = "settle" /\ last.outcome = "ok") =>
        last.res.data.shape = cacheVersion

C4_Witness ==
  /\ last.op = "fetch" /\ last.stale
  /\ last.time - last.localTs < last.T

\* C5: with retries = R and k transport failures, a request that is answered
\* made k+1 attempts with k < R, a request that fails in transport made R
\* attempts, all failed; retry j waits 2^(j-1) seconds first; the waiting
\* callers all receive the settlement.
ExpectedDelays(n) == [j \in 1..n |-> 1000 * (2 ^ (j - 1))]

C5_RetryBackoff ==
  last.op = "settle" =>
     /\ last.outcome \in {"ok", "http", "validation", "transform", "transport"}
     /\ last.outcome = "transport" =>
           /\ last.attempts = last.retries /\ last.fails = last.retries
           /\ last.res = [kind |-> "error", err |-> "transport", status |-> 0]
     /\ last.outcome # "transport" =>
           last.attempts = last.fails + 1 /\ last.fails < last.retries
     /\ (last.outcome \notin {"transport", "transform"}
         /\ last.status \in 200..299
         /\ (last.hasValidator => last.valid)) => last.res.kind = "ok"
     /\ last.delays = ExpectedDelays(last.attempts - 1)
     /\ \A c \in last.joined : caller[c] = 0

C5_Witness ==
  /\ last.op = "settle" /\ last.outcome = "ok"
  /\ last.retries = 3 /\ last.fails = 2 /\ last.attempts = 3
  /\ Cardinality(last.joined) >= 2

AnsweredWithError == last.op = "settle" /\ last.status \notin 200..299
                     /\ last.outcome # "transport" /\ last.outcome # "type"

\* C6 as stated: a non-success status means exactly one attempt for the call,
\* no backoff, an error naming the status and untouched tiers.
C6_ExactlyOneAttempt ==
  AnsweredWithError =>
     /\ last.attempts = 1 /\ last.delays = <<>>
     /\ last.res = [kind |-> "error", err |-> "http", status |-> last.status]
     /\ cache[last.key] = last.cacheBefore
     /\ store[last.key] = last.storeBefore

\* C6 (amended): the attempt answered with a non-success status is the last
\* one: the attempts are the transport failures before it plus itself (one
\* attempt when none failed), the call fails with an error naming the status
\* and the settlement writes neither tier.
C6_StatusIsTerminal ==
  AnsweredWithError =>
     /\ last.attempts = last.fails + 1
     /\ Len(last.delays) = last.fails
     /\ last.res = [kind |-> "error", err |-> "http", status |-> last.status]
     /\ cache[last.key] = last.cacheBefore
     /\ store[last.key] = last.storeBefore
     /\ loading[last.key] = 0

C6_Witness ==
  /\ AnsweredWithError /\ last.status = 404 /\ last.fails = 1
  /\ last.useCache /\ cache[last.key].kind = "entry"

ValidatorRejected == /\ last.op = "settle" /\ last.status \in 200..299
                     /\ last.outcome # "transport" /\ last.outcome # "type"
                     /\ last.hasValidator /\ ~last.valid

\* C7 as stated: after a rejection by the validator both tiers are exactly as
\* they were before the call.
C7_TiersAsBeforeCall ==
  ValidatorRejected =>
     /\ last.res.kind = "error" /\ last.res.err = "validation"
     /\ cache[last.key] = last.pre.cache
     /\ store[last.key] = last.pre.store

\* C7 (amended): a rejection by the validator fails the call with a
\* validation error and the rejected payload is written to neither tier: the
\* settlement leaves both tiers as they were; the one change the call itself
\* can have made is removing a persistent record of another schema version
\* when it read the persistent tier.
C7_RejectedNotCached ==
  ValidatorRejected =>
     /\ last.res.kind = "error" /\ last.res.err = "validation"
     /\ cache[last.key] = last.cacheBefore
     /\ store[last.key] = last.storeBefore
     /\ cache[last.key] = last.pre.cache
     /\ \/ store[last.key] = last.pre.store
        \/ /\ store[last.key] = NoEntry
           /\ last.pre.store.kind = "json"
           /\ last.pre.store.version # cacheVersion

C7_Witness ==
  /\ ValidatorRejected /\ last.useCache
  /\ store[last.key] = NoEntry /\ last.pre.store.kind = "json"

\* C8 as stated: while the gate awaits input, no fetch of the episodes or the
\* stats document has been started on this page and nothing has been rendered.
C8_NoLoadWhileLocked ==
  page.gate = "AWAITING_INPUT" =>
     /\ page.started \cap {"dialogs", "stats"} = {}
     /\ ~page.rendered

AttemptOver == last.op = "attempt" /\ last.verdict # "pending"

\* C9 as stated: a submitted passphrase opens the gate and stores the unlock
\* if and only if its SHA-256 hash equals H; otherwise the gate stays in
\* AWAITING_INPUT with an indication, the session store unchanged and no load
\* started.
C9_UnlockIffHashEquals ==
  AttemptOver =>
     /\ last.verdict = "unlocked" <=> Digest(last.raw) = last.expectedHash
     /\ last.verdict = "unlocked" =>
           page.gate = "OPEN" /\ last.expectedHash \in session.unlocked
     /\ last.verdict # "unlocked" =>
           /\ page.gate = "AWAITING_INPUT" /\ page.overlay.errorText # ""
           /\ session = last.sessionBefore /\ page.loads = last.loadsBefore

\* C9 (amended): a submitted entry opens the gate (OPEN, unlock stored under
\* the session key of H, load sequence started once) if and only if hashing
\* is available, the entry with its surrounding whitespace trimmed is not
\* empty and the SHA-256 hash of the trimmed entry equals H; in every other
\* case the gate stays in AWAITING_INPUT, the overlay shows an indication
\* (missing entry, mismatch, or secure context required), the session store
\* and the load count are unchanged and the form accepts a further attempt.
C9_UnlockIffTrimmedHashMatches ==
  AttemptOver =>
     LET entered == Trim(last.raw)
         matches == /\ last.secure /\ entered # ""
                    /\ Digest(entered) = last.expectedHash
     IN /\ last.gateBefore = "AWAITING_INPUT"
        /\ last.verdict = "unlocked" <=> matches
        /\ last.verdict = "unlocked" =>
              /\ page.gate = "OPEN"
              /\ session.unlocked =
                    last.sessionBefore.unlocked \cup {last.expectedHash}
              /\ session.forceOff = last.sessionBefore.forceOff
              /\ page.loads = last.loadsBefore + 1
              /\ {"dialogs", "stats"} \subseteq page.started
        /\ last.verdict # "unlocked" =>
              /\ page.gate = "AWAITING_INPUT"
              /\ page.overlay.shown /\ ~page.overlay.submitDisabled
              /\ session = last.sessionBefore
              /\ page.loads = last.loadsBefore
              /\ page.overlay.errorText =
                   IF entered = "" THEN "Passwort fehlt."
                   ELSE IF ~last.secure THEN "Nur ueber HTTPS verfuegbar."
                   ELSE "Falsches Passwort."

C9_Witness ==
  /\ AttemptOver /\ last.verdict = "unlocked" /\ last.raw = " pw1"
  /\ page.gate = "OPEN" /\ "h1" \in session.unlocked

\* C10: with enabled = false in the config document the gate is never in
\* AWAITING_INPUT and no overlay is shown; as soon as the config is loaded the
\* gate is OPEN and the load sequence for episodes and stats has been started,
\* exactly once.
C10_DisabledNoPrompt ==
  env.doc.enabledRaw = "bool:false" =>
     /\ page.gate # "AWAITING_INPUT" /\ ~page.overlay.shown
     /\ page.AppState.config.kind = "config" =>
           /\ page.gate = "OPEN" /\ page.loads = 1
           /\ {"dialogs", "stats"} \subseteq page.started

C10_Witness ==
  /\ env.doc.enabledRaw = "bool:false" /\ ~session.forceOff
  /\ page.AppState.config.kind = "config"
  /\ page.rendered /\ page.ready /\ page.loads = 1

\* C11: at a startup with the gate enabled and no override, the prompt is
\* shown if and only if unlock() has not run in this session for the expected
\* hash of the config this startup loaded: an unlock for H lets every later
\* startup with expected hash H through to OPEN, a startup with another
\* expected hash prompts again.
C11_UnlockKeyedByHash ==
  (/\ page.startup.decided /\ ~session.sawOff
   /\ IsEnabled(page.AppState.config.enabledRaw)) =>
     LET H == ExpectedHash(page.AppState.config) IN
     /\ page.startup.prompted <=> H \notin page.startup.known
     /\ ~page.startup.prompted => page.gate = "OPEN" /\ ~page.overlay.shown
     /\ (page.startup.prompted /\ page.gate = "AWAITING_INPUT") =>
           page.overlay.shown /\ page.overlay.expectedHash = H

C11_Witness ==
  /\ page.startup.decided /\ ~session.sawOff
  /\ ExpectedHash(page.AppState.config) = "h1"
  /\ IsEnabled(page.AppState.config.enabledRaw)
  /\ page.startup.known = {"h1", "h2"}
  /\ page.gate = "OPEN" /\ ~page.startup.prompted /\ page.rendered

\* C12: once a startup of the session has found maintenance=off in the URL,
\* that startup and every later one show no prompt and have the gate OPEN as
\* soon as the config is loaded, whatever the config says and whether or not
\* the parameter is still in the URL.
C12_OverrideSticks ==
  (session.sawOff /\ page.startup.decided) =>
     /\ ~page.startup.prompted /\ ~page.overlay.shown
     /\ page.gate = "OPEN" /\ page.loads = 1

C12_Witness ==
  /\ session.sawOff /\ page.startup.decided /\ env.maintenance = ""
  /\ IsEnabled(page.AppState.config.enabledRaw)
  /\ ExpectedHash(page.AppState.config) = "h1"
  /\ session.unlocked = {} /\ page.rendered

\* C13: when the load sequence started after gate clearance fails (a fetch of
\* the episodes or stats document fails terminally), the page shows the error
\* card with the retry button and no page content, app:error is emitted and
\* this load emits no app:ready, and sessionStorage keeps the unlock; a
\* startup that finds the unlock of its expected hash does not prompt.
C13_LoadFailureIsFatal ==
  /\ (last.op = "settle" /\ "load" \in last.failed) =>
        /\ page.errorShown /\ page.appError
        /\ ~page.rendered /\ ~page.overlay.shown
        /\ page.ready = last.readyBefore
        /\ session = last.sessionBefore
  /\ page.errorShown => ~page.rendered /\ page.appError
  /\ (/\ page.startup.decided
      /\ ExpectedHash(page.AppState.config) \in page.startup.known) =>
        ~page.startup.prompted /\ page.gate = "OPEN"

C13_Witness ==
  /\ last.op = "settle" /\ last.failed = {"load"}
  /\ session.unlocked = {"h1"} /\ page.startup.prompted
  /\ page.errorShown

\* C14: a non-empty entry submitted while crypto.subtle is unavailable ends
\* with the message that HTTPS is required, which is neither the generic
\* failure nor the mismatch message; the gate stays in AWAITING_INPUT, nothing
\* is stored or loaded, and the form accepts a further attempt.
C14_SecureContextError ==
  (AttemptOver /\ ~last.secure /\ Trim(last.raw) # "") =>
     /\ last.verdict = "https"
     /\ page.overlay.errorText = "Nur ueber HTTPS verfuegbar."
     /\ page.overlay.errorText # "Falsches Passwort."
     /\ page.overlay.errorText # "Unerwarteter Fehler. Bitte erneut versuchen."
     /\ page.gate = "AWAITING_INPUT" /\ page.overlay.shown
     /\ session = last.sessionBefore /\ page.loads = last.loadsBefore
     /\ ~page.overlay.submitDisabled /\ ~page.overlay.hashing

C14_Witness ==
  /\ AttemptOver /\ ~last.secure /\ last.raw = "pw1"
  /\ last.expectedHash = "h1" /\ last.verdict = "https"
  /\ page.gate = "AWAITING_INPUT"

\* C15 as stated: a manual refresh empties both tiers for the episodes and the
\* stats document, leaves the config entry of both tiers as it was, and gets
\* episodes and stats from requests started after the invalidation.
C15_RefreshKeepsConfig ==
  last.op = "refresh" =>
     /\ \A k \in {"dialogs", "stats"} : cache[k] = NoEntry /\ store[k] = NoEntry
     /\ cache["config"] = last.configCache
     /\ store["config"] = last.configStore
     /\ last.joined = {}

Normalized == norm.kind = "done" /\ norm.raw.kind = "array"

\* C16 as stated: for any raw array normalizeEpisodes returns without raising,
\* and its output holds, in input order, one record for each item that is an
\* object and none for any other item.
C16_BadItemsDropped ==
  Normalized =>
     /\ norm.out.kind = "ok"
     /\ Len(norm.out.records) <= Len(norm.raw.items)
     /\ {norm.out.records[i].item : i \in DOMAIN norm.out.records} =
           {i \in DOMAIN norm.raw.items : norm.raw.items[i].kind = "obj"}
     /\ \A i, j \in DOMAIN norm.out.records :
           i < j => norm.out.records[i].item < norm.out.records[j].item

\* C17 as stated: every output record has terminal blocks, score delta,
\* metrics update and analyst notes as containers, never absent or null
\* (messages are a sequence in every record).
C17_ContainersPresent ==
  (Normalized /\ norm.out.kind = "ok") =>
     \A i \in DOMAIN norm.out.records :
        LET rec == norm.out.records[i] IN
        /\ DOMAIN rec.messages = 1..Len(rec.messages)
        /\ Truthy(rec.terminal_blocks) /\ Truthy(rec.score_delta)
        /\ Truthy(rec.metrics_update) /\ Truthy(rec.analyst_notes)

\* C18 as stated: of two messages of one record without a source timestamp
\* the later one has the strictly greater synthetic timestamp, and with a date
\* D the message at index i has exactly D 03:14:00Z plus 3*i minutes.
C18_SyntheticTimestamps ==
  (Normalized /\ norm.out.kind = "ok") =>
     \A k \in DOMAIN norm.out.records :
        LET rec == norm.out.records[k]
            syn == {i \in DOMAIN rec.messages : rec.messages[i].kind # "src"}
        IN /\ \A i, j \in syn :
                 i < j => /\ rec.messages[i].kind = "iso"
                          /\ rec.messages[j].kind = "iso"
                          /\ rec.messages[i].min < rec.messages[j].min
           /\ ValidDate(rec.date) =>
                 \A i \in syn :
                    rec.messages[i] =
                       IsoTs(DayOf(rec.date) * 1440 + 194 + 3 * (i - 1))

Routed == last.op = "handleRoute"

\* C19: handleRoute with the fragment episoden makes protokoll the current
\* page, never a page called episoden, and leaves the fragment as it was
\* (no further fragment-change event is queued by that resolution).
C19_EpisodenResolves ==
  (Routed /\ last.hash = "episoden") =>
     /\ page.AppState.currentPage = "protokoll"
     /\ page.AppState.currentPage # "episoden"
     /\ page.hash = "episoden" /\ page.pending = last.pending
     /\ \A i \in DOMAIN last.events : last.events[i] = "protokoll"

C19_Witness ==
  /\ Routed /\ last.hash = "episoden" /\ last.currentPage = "live"
  /\ last.events = <<"protokoll">> /\ page.AppState.currentPage = "protokoll"

\* the page a fragment stands for: the alias episoden and the alias archiv
\* mean protokoll, a page id means itself, anything else the default page
Resolved(hash) ==
  IF hash \in {"episoden", "archiv"} THEN "protokoll"
  ELSE IF hash \in {"live", "protokoll", "dossiers", "info"} THEN hash
  ELSE "live"

C20_WitnessRoute ==
  /\ Routed /\ last.hash = "bogus" /\ last.currentPage = "protokoll"
  /\ last.events = <<"live">> /\ page.AppState.currentPage = "live"

Emitted == bus.kind = "bus" /\ bus.lastEmit.kind = "emit"
IdsOf(q) == [i \in DOMAIN q |-> q[i].id]

\* C21: emit calls the handlers synchronously in subscription order, each
\* with the emitted data; a handler that throws does not end the dispatch
\* (unless the thrower unsubscribed itself first, a handler subscribed after
\* it is called next, and when no handler unsubscribes during the dispatch
\* every handler is called); the exception does not reach the emitter.
C21_ThrowingHandlerIsolated ==
  Emitted =>
     LET e == bus.lastEmit IN
     /\ ~e.propagated
     /\ \A i, j \in DOMAIN e.calls : i < j => e.calls[i].id < e.calls[j].id
     /\ \A i \in DOMAIN e.calls :
           /\ e.calls[i].data = e.data
           /\ \E k \in DOMAIN e.start : e.start[k].id = e.calls[i].id
           /\ ( /\ e.calls[i].threw
                /\ e.start[IndexOf(e.start, e.calls[i].id)].reg # "unsub"
                /\ e.calls[i].id # e.start[Len(e.start)].id )
                 => i < Len(e.calls)
     /\ bus.list = e.start => IdsOf(e.calls) = IdsOf(e.start)

C21_Witness ==
  /\ Emitted /\ Len(bus.lastEmit.start) = 3
  /\ bus.lastEmit.start[1].throws /\ bus.lastEmit.start[2].throws
  /\ ~bus.lastEmit.start[3].throws
  /\ IdsOf(bus.lastEmit.calls) = IdsOf(bus.lastEmit.start)

\* C28 as stated: a handler registered with once is invoked for at most one
\* emit over any sequence of emits, whether or not it throws when invoked.
C28_OnceAtMostOnce ==
  bus.kind = "bus" =>
     \A k \in DOMAIN bus.lastEmit.start :
        bus.lastEmit.start[k].reg = "once" =>
           bus.invoked[bus.lastEmit.start[k].id] <= 1

\* C29 as stated: one emit invokes every handler that is subscribed when the
\* emit starts exactly once, also when a handler unsubscribes itself during
\* the dispatch while other handlers are subscribed after it.
C29_EveryHandlerOnce ==
  Emitted =>
     \A k \in DOMAIN bus.lastEmit.start :
        Cardinality({c \in DOMAIN bus.lastEmit.calls :
                       bus.lastEmit.calls[c].id = bus.lastEmit.start[k].id}) = 1

\* the persistent store failed in the request that has just settled: the
\* record found was unreadable, or the write of the new record failed
ReadFailed  == last.storeBefore.kind = "corrupt"
WriteFailed == store[last.key] = last.storeBefore

\* C22: a request that obtained an accepted response and transformed it
\* settles with that payload also when the store could not be read or
\* written: the caller
\* gets no error, the memory tier holds the new entry and the key is no
\* longer in flight; and a caching fetch that finds a memory entry within
\* its TTL is answered from memory, never by a network request.
C22_StorageFailureSwallowed ==
  /\ ( /\ last.op = "settle" /\ last.useCache
       /\ ResponseOk(last.status)
       /\ ~ValidatorRejects(last.hasValidator, last.valid)
       /\ last.outcome # "transform" ) =>
        /\ last.outcome = "ok" /\ last.res.kind = "ok"
        /\ last.res.data = Payload(last.res.data.at, cacheVersion, NoDoc)
        /\ last.res.data.at <= now
        /\ cache[last.key] = [kind |-> "entry", data |-> last.res.data,
                              timestamp |-> last.res.data.at]
        /\ loading[last.key] = 0
        /\ store[last.key].kind \in {"none", "corrupt", "json"}
  /\ ( /\ last.op = "fetch" /\ last.useCache
       /\ cache[last.key].kind = "entry"
       /\ last.time - cache[last.key].timestamp < last.T
       /\ last.how # "local" ) =>
        last.how = "memory" /\ last.data = cache[last.key].data

C22_Witness ==
  /\ last.op = "settle" /\ last.useCache /\ last.outcome = "ok"
  /\ ReadFailed /\ WriteFailed /\ last.joined # {}
  /\ cache[last.key].kind = "entry"

Outstanding(k) == {r \in ReqIds : reqs[r].kind = "active" /\ reqs[r].key = k}

\* C23: a key has an in-flight marker exactly while a network request for it
\* is outstanding, and the marker names that one request; a fetch that
\* starts a request sets the marker, every settlement (success, status
\* error, validation error, exception in transform, exhausted retries)
\* removes it, and a fetch that is given a request to wait for is given one
\* that is still outstanding, never one that has settled.
C23_MarkerWhileOutstanding ==
  /\ \A k \in Keys :
        /\ loading[k] # 0 <=> Outstanding(k) # {}
        /\ Outstanding(k) \subseteq {loading[k]}
  /\ last.op = "settle" =>
        /\ last.outcome \in {"ok", "http", "validation", "transform",
                             "transport"}
        /\ loading[last.key] = 0 /\ Outstanding(last.key) = {}
        /\ \A c \in last.joined : caller[c] = 0
  /\ (last.op = "fetch" /\ last.how = "start") => loading[last.key] # 0
  /\ \A c \in Callers : caller[c] # 0 => reqs[caller[c]].kind = "active"

C23_Witness ==
  /\ last.op = "settle" /\ last.outcome = "transform" /\ last.joined # {}
  /\ loading[last.key] = 0

\* C24 as stated: every message of every output record has a non-null
\* timestamp, with or without a source timestamp and whatever the date holds.
C24_TimestampNeverNull ==
  (Normalized /\ norm.out.kind = "ok") =>
     \A k \in DOMAIN norm.out.records :
        \A i \in DOMAIN norm.out.records[k].messages :
           norm.out.records[k].messages[i].kind # "null"

\* C25 as stated: each output record has a positive integer as sequence
\* number: the source's when the source gives an explicit positive integer,
\* otherwise the 1-based position of the item in the raw array; the output
\* keeps the input order.
C25_SequenceNumbers ==
  (Normalized /\ norm.out.kind = "ok") =>
     /\ \A k \in DOMAIN norm.out.records :
           LET rec == norm.out.records[k]
               src == Field(norm.raw.items[rec.item], "episode")
           IN /\ rec.episode.kind = "int" /\ rec.episode.n > 0
              /\ rec.episode.n = (IF src = "int:7" THEN 7 ELSE rec.item)
     /\ \A i, j \in DOMAIN norm.out.records :
           i < j => norm.out.records[i].item < norm.out.records[j].item

\* C26 as stated: handleRoute with the fragment archiv ends on protokoll with
\* the order 'phase', and the order is still 'phase' (and the page still
\* protokoll) when the hashchange event that follows has been handled, with
\* or without an ep query.
C26_ArchivKeepsPhase ==
  [][ /\ (last'.op = "handleRoute" /\ last'.hash = "archiv") =>
            /\ page'.AppState.currentPage = "protokoll"
            /\ page'.AppState.currentOrder = "phase"
      /\ ( /\ last.op = "handleRoute" /\ last.hash = "archiv"
           /\ last'.op = "handleRoute" /\ last'.arg = "event" ) =>
            /\ page'.AppState.currentPage = "protokoll"
            /\ page'.AppState.currentOrder = "phase" ]_vars

\* C27 as stated: handleRoute with a fragment that resolves to the current
\* page changes nothing and emits nothing, unless that page is protokoll and
\* the URL has a numeric ep parameter: then it navigates again and schedules
\* the scroll to that episode (the alias archiv, which also sets the order,
\* is left aside).
C27_SamePageIsNoOp ==
  (Routed /\ last.hash # "archiv" /\ Resolved(last.hash) = last.currentPage) =>
     IF last.currentPage = "protokoll" /\ IsDigits(env.ep)
     THEN /\ last.events = <<"protokoll">>
          /\ last.scrolls = <<ToNumber(env.ep)>>
     ELSE /\ last.events = <<>> /\ last.scrolls = <<>>
          /\ page.AppState.currentPage = last.currentPage
          /\ page.AppState.currentOrder = last.currentOrder
          /\ page.hash = last.hash /\ page.pending = last.pending

\* C30 as stated: on a page whose start-up showed the gate overlay, the load
\* sequence is started at most once, whatever clicks, submissions and Escape
\* presses happen before the overlay is removed, with and without an
\* expected hash.
C30_UnlockLoadsOnce ==
  page.startup.prompted => page.loads <= 1

====
